---- MODULE Spec2Model ----
(***************************************************************************)
(* Model of src/text_embedding/init.rs of fastembed-rs: the option         *)
(* builders InitOptions and InitOptionsUserDefined, the conversion between *)
(* them, the manual Clone of InitOptions, and UserDefinedEmbeddingModel.   *)
(*                                                                         *)
(* Three specifications share the variables:                               *)
(*   Spec             a caller building one InitOptions chain, cloning it, *)
(*                    converting it, and building InitOptionsUserDefined;  *)
(*   SpecUserDefined  a caller building two UserDefinedEmbeddingModel      *)
(*                    values and handing them to runtime construction;     *)
(*   SpecPure         every operation applied once to every value of its   *)
(*                    receiver type and every argument.                    *)
(***************************************************************************)
EXTENDS Integers, Sequences, FiniteSets, TLC

VARIABLES opts, newModel, copy, userOpts, models, hist, runtime, last, res

vars == <<opts, newModel, copy, userOpts, models, hist, runtime, last, res>>

----------------------------------------------------------------------------
(* Bounds of the model.                                                    *)

\* catalog models are 1..NumModels
NumModels == 2
\* longest execution-provider list a caller passes
MaxProviders == 2
\* callers pass max_length 0..MaxLenArg (and the library default)
MaxLenArg == 1
\* longest ONNX byte vector a caller passes
MaxBytes == 1

----------------------------------------------------------------------------
(* Option<T>: None is the empty sequence, Some(x) the sequence <<x>>.      *)

None == <<>>
Some(x) == <<x>>
IsSome(o) == Len(o) = 1
Unwrap(o) == o[1]

----------------------------------------------------------------------------
(* Imported items, defined outside init.rs.                                *)

\* super::DEFAULT_EMBEDDING_MODEL: one fixed member of the catalog
DEFAULT_EMBEDDING_MODEL == 1
\* super::DEFAULT_MAX_LENGTH: one library-wide number
DEFAULT_MAX_LENGTH == 512
\* crate::common::DEFAULT_CACHE_DIR
DEFAULT_CACHE_DIR == "DEFAULT_CACHE_DIR"

\* crate::EmbeddingModel
EmbeddingModel == 1..NumModels
\* ort::execution_providers::ExecutionProviderDispatch
ExecutionProviderDispatch == {"CPU", "CUDA"}
\* crate::pooling::Pooling
Pooling == {"Cls", "Mean"}
\* crate::QuantizationMode
QuantizationMode == {"None", "Static", "Dynamic"}
\* caller-supplied implementations of hf_hub::api::Progress
Progress == {"progress"}

SeqsUpTo(S, n) == UNION {[1..k -> S] : k \in 0..n}

ProviderLists == SeqsUpTo(ExecutionProviderDispatch, MaxProviders)
MaxLengths == (0..MaxLenArg) \cup {DEFAULT_MAX_LENGTH}
CacheDirs == {DEFAULT_CACHE_DIR, "custom_dir"}
ByteVecs == SeqsUpTo({0, 1}, MaxBytes)

----------------------------------------------------------------------------
(* struct InitOptions and its impls.                                       *)

InitOptions ==
  [model_name : EmbeddingModel,
   execution_providers : ProviderLists,
   max_length : MaxLengths,
   cache_dir : CacheDirs,
   show_download_progress : BOOLEAN,
   custom_progress : {None} \cup {Some(p) : p \in Progress}]

InitOptions_default ==
  [model_name |-> DEFAULT_EMBEDDING_MODEL,
   execution_providers |-> <<>>,
   max_length |-> DEFAULT_MAX_LENGTH,
   cache_dir |-> DEFAULT_CACHE_DIR,
   show_download_progress |-> TRUE,
   custom_progress |-> None]

\* a new() that drops its argument
InitOptions_new_ignoring_model(model_name) ==
  InitOptions_default

InitOptions_new(model_name) ==
  [InitOptions_default EXCEPT !.model_name = model_name]

\* a clone that carries the callback over
InitOptions_clone_with_callback(self) ==
  self

\* a clone that fills the progress policy from the defaults
InitOptions_clone_default_progress(self) ==
  [self EXCEPT !.custom_progress = None, !.show_download_progress = TRUE]

InitOptions_clone(self) ==
  [model_name |-> self.model_name,
   execution_providers |-> self.execution_providers,
   max_length |-> self.max_length,
   cache_dir |-> self.cache_dir,
   show_download_progress |-> self.show_download_progress,
   custom_progress |-> None]

InitOptions_with_custom_progress(self, progress) ==
  [self EXCEPT !.custom_progress = Some(progress),
               !.show_download_progress = FALSE]

\* a setter that rejects a zero length and keeps the old one
InitOptions_with_max_length_rejecting_zero(self, max_length) ==
  IF max_length = 0 THEN self ELSE [self EXCEPT !.max_length = max_length]

InitOptions_with_max_length(self, max_length) ==
  [self EXCEPT !.max_length = max_length]

\* a setter that rebuilds the value from new() and loses the other fields
InitOptions_with_cache_dir_rebuilding(self, cache_dir) ==
  [InitOptions_default EXCEPT !.model_name = self.model_name,
                              !.cache_dir = cache_dir]

InitOptions_with_cache_dir(self, cache_dir) ==
  [self EXCEPT !.cache_dir = cache_dir]

InitOptions_with_execution_providers(self, execution_providers) ==
  [self EXCEPT !.execution_providers = execution_providers]

InitOptions_with_show_download_progress(self, show_download_progress) ==
  [self EXCEPT !.show_download_progress = show_download_progress]

----------------------------------------------------------------------------
(* struct InitOptionsUserDefined, its impls and From<InitOptions>.         *)

InitOptionsUserDefined ==
  [execution_providers : ProviderLists, max_length : MaxLengths]

InitOptionsUserDefined_default ==
  [execution_providers |-> <<>>, max_length |-> DEFAULT_MAX_LENGTH]

InitOptionsUserDefined_new == InitOptionsUserDefined_default

InitOptionsUserDefined_with_execution_providers(self, execution_providers) ==
  [self EXCEPT !.execution_providers = execution_providers]

InitOptionsUserDefined_with_max_length(self, max_length) ==
  [self EXCEPT !.max_length = max_length]

\* a conversion that fills max_length from the defaults
InitOptionsUserDefined_from_default_length(options) ==
  [execution_providers |-> options.execution_providers,
   max_length |-> DEFAULT_MAX_LENGTH]

InitOptionsUserDefined_from(options) ==
  [execution_providers |-> options.execution_providers,
   max_length |-> options.max_length]

----------------------------------------------------------------------------
(* Equality of the field types, as the derived PartialEq computes it.      *)

RECURSIVE Vec_eq(_, _)
Vec_eq(a, b) ==
  IF Len(a) # Len(b) THEN FALSE
  ELSE IF Len(a) = 0 THEN TRUE
  ELSE Head(a) = Head(b) /\ Vec_eq(Tail(a), Tail(b))

Option_eq(a, b) ==
  IF IsSome(a) /\ IsSome(b) THEN Unwrap(a) = Unwrap(b)
  ELSE ~IsSome(a) /\ ~IsSome(b)

\* crate::common::TokenizerFiles: four files' bytes, compared file by file
TokenizerRoles ==
  {"tokenizer_file", "config_file", "special_tokens_map_file",
   "tokenizer_config_file"}

TokenizerFiles ==
  {[r \in TokenizerRoles |-> <<1>>],
   [r \in TokenizerRoles |-> IF r = "config_file" THEN <<>> ELSE <<1>>]}

TokenizerFiles_eq(a, b) ==
  \A r \in TokenizerRoles : Vec_eq(a[r], b[r])

----------------------------------------------------------------------------
(* struct UserDefinedEmbeddingModel and its impls.                         *)

UserDefinedEmbeddingModel ==
  [onnx_file : ByteVecs,
   tokenizer_files : TokenizerFiles,
   pooling : {None} \cup {Some(p) : p \in Pooling},
   quantization : QuantizationMode]

\* a constructor that picks a pooling strategy itself
UserDefinedEmbeddingModel_new_guessing_pooling(onnx_file, tokenizer_files) ==
  [onnx_file |-> onnx_file,
   tokenizer_files |-> tokenizer_files,
   pooling |-> Some("Mean"),
   quantization |-> "None"]

UserDefinedEmbeddingModel_new(onnx_file, tokenizer_files) ==
  [onnx_file |-> onnx_file,
   tokenizer_files |-> tokenizer_files,
   pooling |-> None,
   quantization |-> "None"]

UserDefinedEmbeddingModel_with_quantization(self, quantization) ==
  [self EXCEPT !.quantization = quantization]

\* an override that keeps a pooling already set
UserDefinedEmbeddingModel_with_pooling_keeping(self, pooling) ==
  IF IsSome(self.pooling) THEN self ELSE [self EXCEPT !.pooling = Some(pooling)]

UserDefinedEmbeddingModel_with_pooling(self, pooling) ==
  [self EXCEPT !.pooling = Some(pooling)]

\* an equality that leaves the pooling out
UserDefinedEmbeddingModel_eq_without_pooling(a, b) ==
  /\ Vec_eq(a.onnx_file, b.onnx_file)
  /\ TokenizerFiles_eq(a.tokenizer_files, b.tokenizer_files)
  /\ a.quantization = b.quantization

\* #[derive(PartialEq, Eq)]: the conjunction of the fields' equalities
UserDefinedEmbeddingModel_eq(a, b) ==
  /\ Vec_eq(a.onnx_file, b.onnx_file)
  /\ TokenizerFiles_eq(a.tokenizer_files, b.tokenizer_files)
  /\ Option_eq(a.pooling, b.pooling)
  /\ a.quantization = b.quantization

----------------------------------------------------------------------------
(* struct TextEmbedding and the construction of one from a user-defined    *)
(* model.  The constructor is not part of init.rs; it is modelled from the *)
(* design document: it resolves pooling from the model's override only and *)
(* rejects an unresolved pooling, an invalid max length, empty graph bytes *)
(* and an incomplete tokenizer file set with a ConfigurationError.         *)

Ok(x) == [ok |-> TRUE, val |-> x]
Err(e) == [ok |-> FALSE, val |-> e]

TextEmbedding(pooling, need_token_type_ids, quantization) ==
  [pooling |-> pooling,
   quantization |-> quantization,
   need_token_type_ids |-> need_token_type_ids,
   tokenizer |-> "Tokenizer",
   session |-> "Session"]

try_new_from_user_defined(model, options, need_token_type_ids) ==
  IF \/ ~IsSome(model.pooling)
     \/ options.max_length = 0
     \/ Len(model.onnx_file) = 0
     \/ \E r \in TokenizerRoles : Len(model.tokenizer_files[r]) = 0
  THEN Err("ConfigurationError")
  ELSE Ok(TextEmbedding(model.pooling, need_token_type_ids,
                        model.quantization))

----------------------------------------------------------------------------
(* Initial state: no value has been built.                                 *)

Init ==
  /\ opts = None
  /\ newModel = DEFAULT_EMBEDDING_MODEL
  /\ copy = None
  /\ userOpts = None
  /\ models = [i \in 1..2 |-> None]
  /\ hist = [i \in 1..2 |-> None]
  /\ runtime = None
  /\ last = [op |-> "init"]
  /\ res = [op |-> "init"]

----------------------------------------------------------------------------
(* Spec: one InitOptions chain.  opts is the value the chain has reached,  *)
(* newModel the model the chain was started with, copy a live clone of     *)
(* opts, userOpts an InitOptionsUserDefined value, last the call just made.*)
(* The caller drops a clone before it goes on building.                    *)

New(model_name) ==
  /\ copy = None
  /\ opts' = Some(InitOptions_new(model_name))
  /\ newModel' = model_name
  /\ last' = [op |-> "new", arg |-> model_name]
  /\ UNCHANGED <<copy, userOpts, models, hist, runtime, res>>

Default ==
  /\ copy = None
  /\ opts' = Some(InitOptions_default)
  /\ newModel' = DEFAULT_EMBEDDING_MODEL
  /\ last' = [op |-> "default", arg |-> DEFAULT_EMBEDDING_MODEL]
  /\ UNCHANGED <<copy, userOpts, models, hist, runtime, res>>

WithCustomProgress(progress) ==
  /\ IsSome(opts) /\ copy = None
  /\ opts' = Some(InitOptions_with_custom_progress(Unwrap(opts), progress))
  /\ last' = [op |-> "with_custom_progress", arg |-> progress]
  /\ UNCHANGED <<newModel, copy, userOpts, models, hist, runtime, res>>

WithMaxLength(max_length) ==
  /\ IsSome(opts) /\ copy = None
  /\ opts' = Some(InitOptions_with_max_length(Unwrap(opts), max_length))
  /\ last' = [op |-> "with_max_length", arg |-> max_length]
  /\ UNCHANGED <<newModel, copy, userOpts, models, hist, runtime, res>>

WithCacheDir(cache_dir) ==
  /\ IsSome(opts) /\ copy = None
  /\ opts' = Some(InitOptions_with_cache_dir(Unwrap(opts), cache_dir))
  /\ last' = [op |-> "with_cache_dir", arg |-> cache_dir]
  /\ UNCHANGED <<newModel, copy, userOpts, models, hist, runtime, res>>

WithExecutionProviders(execution_providers) ==
  /\ IsSome(opts) /\ copy = None
  /\ opts' = Some(InitOptions_with_execution_providers(Unwrap(opts),
                                                       execution_providers))
  /\ last' = [op |-> "with_execution_providers",
              arg |-> execution_providers]
  /\ UNCHANGED <<newModel, copy, userOpts, models, hist, runtime, res>>

WithShowDownloadProgress(show_download_progress) ==
  /\ IsSome(opts) /\ copy = None
  /\ opts' = Some(InitOptions_with_show_download_progress(
                    Unwrap(opts), show_download_progress))
  /\ last' = [op |-> "with_show_download_progress",
              arg |-> show_download_progress]
  /\ UNCHANGED <<newModel, copy, userOpts, models, hist, runtime, res>>

\* let copy = opts.clone(): clone borrows opts
Clone ==
  /\ IsSome(opts) /\ copy = None
  /\ copy' = Some(InitOptions_clone(Unwrap(opts)))
  /\ last' = [op |-> "clone", self |-> Unwrap(opts)]
  /\ UNCHANGED <<opts, newModel, userOpts, models, hist, runtime, res>>

\* the clone goes out of scope
DropClone ==
  /\ IsSome(copy)
  /\ copy' = None
  /\ last' = [op |-> "drop"]
  /\ UNCHANGED <<opts, newModel, userOpts, models, hist, runtime, res>>

\* let userOpts = InitOptionsUserDefined::from(opts): opts is moved
From ==
  /\ IsSome(opts) /\ copy = None
  /\ userOpts' = Some(InitOptionsUserDefined_from(Unwrap(opts)))
  /\ opts' = None
  /\ last' = [op |-> "from", self |-> Unwrap(opts)]
  /\ UNCHANGED <<newModel, copy, models, hist, runtime, res>>

UserDefinedNew ==
  /\ userOpts' = Some(InitOptionsUserDefined_new)
  /\ last' = [op |-> "user_defined_new"]
  /\ UNCHANGED <<opts, newModel, copy, models, hist, runtime, res>>

UserDefinedWithExecutionProviders(execution_providers) ==
  /\ IsSome(userOpts)
  /\ userOpts' = Some(InitOptionsUserDefined_with_execution_providers(
                        Unwrap(userOpts), execution_providers))
  /\ last' = [op |-> "user_defined_with_execution_providers",
              arg |-> execution_providers]
  /\ UNCHANGED <<opts, newModel, copy, models, hist, runtime, res>>

UserDefinedWithMaxLength(max_length) ==
  /\ IsSome(userOpts)
  /\ userOpts' = Some(InitOptionsUserDefined_with_max_length(
                        Unwrap(userOpts), max_length))
  /\ last' = [op |-> "user_defined_with_max_length",
              arg |-> max_length]
  /\ UNCHANGED <<opts, newModel, copy, models, hist, runtime, res>>

Next ==
  \/ \E m \in EmbeddingModel : New(m)
  \/ Default
  \/ \E p \in Progress : WithCustomProgress(p)
  \/ \E n \in MaxLengths : WithMaxLength(n)
  \/ \E d \in CacheDirs : WithCacheDir(d)
  \/ \E e \in ProviderLists : WithExecutionProviders(e)
  \/ \E b \in BOOLEAN : WithShowDownloadProgress(b)
  \/ Clone
  \/ DropClone
  \/ From
  \/ UserDefinedNew
  \/ \E e \in ProviderLists : UserDefinedWithExecutionProviders(e)
  \/ \E n \in MaxLengths : UserDefinedWithMaxLength(n)

Spec == Init /\ [][Next]_vars

----------------------------------------------------------------------------
(* SpecUserDefined: two UserDefinedEmbeddingModel values.  models[i] is    *)
(* the value chain i has reached; hist[i] records the calls that built it: *)
(* the constructor's arguments and the argument of the most recent         *)
(* with_pooling and with_quantization call.  runtime is the result of a    *)
(* construction; the caller drops it before it goes on building.           *)

Slots == 1..2

ModelNew(i, onnx_file, tokenizer_files) ==
  /\ models[i] = None /\ runtime = None
  /\ models' = [models EXCEPT
                  ![i] = Some(UserDefinedEmbeddingModel_new(onnx_file,
                                                            tokenizer_files))]
  /\ hist' = [hist EXCEPT
                ![i] = Some([onnx_file |-> onnx_file,
                             tokenizer_files |-> tokenizer_files,
                             pooling |-> None,
                             quantization |-> "None"])]
  /\ last' = [op |-> "model_new", slot |-> i]
  /\ UNCHANGED <<opts, newModel, copy, userOpts, runtime, res>>

ModelWithQuantization(i, quantization) ==
  /\ IsSome(models[i]) /\ runtime = None
  /\ models' = [models EXCEPT
                  ![i] = Some(UserDefinedEmbeddingModel_with_quantization(
                                Unwrap(models[i]), quantization))]
  /\ hist' = [hist EXCEPT
                ![i] = Some([Unwrap(hist[i]) EXCEPT
                               !.quantization = quantization])]
  /\ last' = [op |-> "model_with_quantization", slot |-> i]
  /\ UNCHANGED <<opts, newModel, copy, userOpts, runtime, res>>

ModelWithPooling(i, pooling) ==
  /\ IsSome(models[i]) /\ runtime = None
  /\ models' = [models EXCEPT
                  ![i] = Some(UserDefinedEmbeddingModel_with_pooling(
                                Unwrap(models[i]), pooling))]
  /\ hist' = [hist EXCEPT
                ![i] = Some([Unwrap(hist[i]) EXCEPT
                               !.pooling = Some(pooling)])]
  /\ last' = [op |-> "model_with_pooling", slot |-> i]
  /\ UNCHANGED <<opts, newModel, copy, userOpts, runtime, res>>

\* the model and the options are moved into the constructor; whether the
\* graph declares a token-type-ids input is the graph's business
Construct(i, options, need_token_type_ids) ==
  /\ IsSome(models[i]) /\ runtime = None
  /\ runtime' = Some(try_new_from_user_defined(Unwrap(models[i]), options,
                                               need_token_type_ids))
  /\ models' = [models EXCEPT ![i] = None]
  /\ hist' = [hist EXCEPT ![i] = None]
  /\ last' = [op |-> "try_new_from_user_defined",
              model |-> Unwrap(models[i]), built |-> Unwrap(hist[i])]
  /\ UNCHANGED <<opts, newModel, copy, userOpts, res>>

DropRuntime ==
  /\ IsSome(runtime)
  /\ runtime' = None
  /\ last' = [op |-> "drop"]
  /\ UNCHANGED <<opts, newModel, copy, userOpts, models, hist, res>>

NextUserDefined ==
  \/ \E i \in Slots, b \in ByteVecs, f \in TokenizerFiles : ModelNew(i, b, f)
  \/ \E i \in Slots, q \in QuantizationMode : ModelWithQuantization(i, q)
  \/ \E i \in Slots, p \in Pooling : ModelWithPooling(i, p)
  \/ \E i \in Slots, o \in InitOptionsUserDefined, t \in BOOLEAN :
       Construct(i, o, t)
  \/ DropRuntime

SpecUserDefined == Init /\ [][NextUserDefined]_vars

----------------------------------------------------------------------------
(* SpecPure: one operation applied to one receiver and one argument; res  *)
(* records the call and what it returned.                                  *)

Call(op, self, arg, out) ==
  /\ res.op = "init"
  /\ res' = [op |-> op, self |-> self, arg |-> arg, out |-> out]
  /\ UNCHANGED <<opts, newModel, copy, userOpts, models, hist, runtime, last>>

ApplyNew ==
  \E m \in EmbeddingModel : Call("InitOptions::new", None, m,
                                 InitOptions_new(m))

ApplyWithCustomProgress ==
  \E o \in InitOptions, p \in Progress :
    Call("InitOptions::with_custom_progress", o, p,
         InitOptions_with_custom_progress(o, p))

ApplyWithMaxLength ==
  \E o \in InitOptions, n \in MaxLengths :
    Call("InitOptions::with_max_length", o, n,
         InitOptions_with_max_length(o, n))

ApplyWithCacheDir ==
  \E o \in InitOptions, d \in CacheDirs :
    Call("InitOptions::with_cache_dir", o, d,
         InitOptions_with_cache_dir(o, d))

ApplyWithExecutionProviders ==
  \E o \in InitOptions, e \in ProviderLists :
    Call("InitOptions::with_execution_providers", o, e,
         InitOptions_with_execution_providers(o, e))

ApplyWithShowDownloadProgress ==
  \E o \in InitOptions, b \in BOOLEAN :
    Call("InitOptions::with_show_download_progress", o, b,
         InitOptions_with_show_download_progress(o, b))

ApplyUserDefinedNew ==
  Call("InitOptionsUserDefined::new", None, None, InitOptionsUserDefined_new)

ApplyUserDefinedWithExecutionProviders ==
  \E o \in InitOptionsUserDefined, e \in ProviderLists :
    Call("InitOptionsUserDefined::with_execution_providers", o, e,
         InitOptionsUserDefined_with_execution_providers(o, e))

ApplyUserDefinedWithMaxLength ==
  \E o \in InitOptionsUserDefined, n \in MaxLengths :
    Call("InitOptionsUserDefined::with_max_length", o, n,
         InitOptionsUserDefined_with_max_length(o, n))

ApplyFrom ==
  \E o \in InitOptions :
    Call("InitOptionsUserDefined::from", None, o,
         InitOptionsUserDefined_from(o))

ApplyModelNew ==
  \E b \in ByteVecs, f \in TokenizerFiles :
    Call("UserDefinedEmbeddingModel::new", None, <<b, f>>,
         UserDefinedEmbeddingModel_new(b, f))

ApplyModelWithQuantization ==
  \E m \in UserDefinedEmbeddingModel, q \in QuantizationMode :
    Call("UserDefinedEmbeddingModel::with_quantization", m, q,
         UserDefinedEmbeddingModel_with_quantization(m, q))

ApplyModelWithPooling ==
  \E m \in UserDefinedEmbeddingModel, p \in Pooling :
    Call("UserDefinedEmbeddingModel::with_pooling", m, p,
         UserDefinedEmbeddingModel_with_pooling(m, p))

ApplyConstruct ==
  \E m \in UserDefinedEmbeddingModel, o \in InitOptionsUserDefined,
     t \in BOOLEAN :
    Call("TextEmbedding::try_new_from_user_defined", m, o,
         try_new_from_user_defined(m, o, t))

NextPure ==
  \/ ApplyNew
  \/ ApplyWithCustomProgress
  \/ ApplyWithMaxLength
  \/ ApplyWithCacheDir
  \/ ApplyWithExecutionProviders
  \/ ApplyWithShowDownloadProgress
  \/ ApplyUserDefinedNew
  \/ ApplyUserDefinedWithExecutionProviders
  \/ ApplyUserDefinedWithMaxLength
  \/ ApplyFrom
  \/ ApplyModelNew
  \/ ApplyModelWithQuantization
  \/ ApplyModelWithPooling
  \/ ApplyConstruct

SpecPure == Init /\ [][NextPure]_vars

----------------------------------------------------------------------------
(* Properties of the InitOptions chain, checked under Spec.                *)

OtherFields(f) ==
  {"model_name", "execution_providers", "max_length", "cache_dir",
   "show_download_progress", "custom_progress"} \ f

SameFields(a, b, F) == \A f \in F : a[f] = b[f]

\* C1: in every InitOptions value reachable from new(m) or default() by
\* with_* calls, custom_progress is never present while
\* show_download_progress is true.
C1_ProgressMutualExclusion ==
  IsSome(opts) =>
    ~(IsSome(Unwrap(opts).custom_progress)
      /\ Unwrap(opts).show_download_progress)

C2_Step ==
  /\ last'.op = "with_max_length" =>
       /\ Unwrap(opts').max_length = last'.arg
       /\ SameFields(Unwrap(opts), Unwrap(opts'), OtherFields({"max_length"}))
  /\ last'.op = "with_cache_dir" =>
       /\ Unwrap(opts').cache_dir = last'.arg
       /\ SameFields(Unwrap(opts), Unwrap(opts'), OtherFields({"cache_dir"}))
  /\ last'.op = "with_execution_providers" =>
       /\ Unwrap(opts').execution_providers = last'.arg
       /\ SameFields(Unwrap(opts), Unwrap(opts'),
                     OtherFields({"execution_providers"}))
  /\ last'.op = "with_show_download_progress" =>
       /\ Unwrap(opts').show_download_progress = last'.arg
       /\ SameFields(Unwrap(opts), Unwrap(opts'),
                     OtherFields({"show_download_progress"}))
  /\ last'.op = "with_custom_progress" =>
       /\ Unwrap(opts').custom_progress = Some(last'.arg)
       /\ Unwrap(opts').show_download_progress = FALSE
       /\ SameFields(Unwrap(opts), Unwrap(opts'),
                     OtherFields({"custom_progress",
                                  "show_download_progress"}))
  /\ IsSome(opts') => Unwrap(opts').model_name = newModel'

\* C2: each of with_max_length, with_cache_dir, with_execution_providers and
\* with_show_download_progress sets its named field to its argument and leaves
\* the other five fields as they were; with_custom_progress sets
\* custom_progress to the callback and show_download_progress to false and
\* leaves the other four; so model_name stays the model the chain began with.
C2_SetterFrame == [][C2_Step]_vars

C2_Witness ==
  /\ last.op = "with_custom_progress"
  /\ IsSome(opts)
  /\ Unwrap(opts).model_name = newModel
  /\ newModel # DEFAULT_EMBEDDING_MODEL
  /\ Unwrap(opts).max_length = 0
  /\ Unwrap(opts).cache_dir # DEFAULT_CACHE_DIR
  /\ Len(Unwrap(opts).execution_providers) = MaxProviders

FreshOptions(o, m) ==
  /\ o.model_name = m
  /\ o.max_length = DEFAULT_MAX_LENGTH
  /\ o.cache_dir = DEFAULT_CACHE_DIR
  /\ o.show_download_progress = TRUE
  /\ o.execution_providers = <<>>
  /\ o.custom_progress = None

C4_CloneDropsCallback ==
  /\ IsSome(copy) => Unwrap(copy).custom_progress = None
  /\ last.op = "clone" => IsSome(copy) /\ opts = Some(last.self)

C4_Witness ==
  /\ last.op = "clone"
  /\ IsSome(Unwrap(opts).custom_progress)
  /\ Unwrap(copy).custom_progress = None

\* C10: the clone has the original's model_name, execution_providers,
\* max_length, cache_dir and show_download_progress; so the clone of a value
\* that reports through a callback reports nothing at all, and differs from
\* the original in its progress policy.
C10_ClonePreservesOtherFields ==
  last.op = "clone" =>
    /\ SameFields(Unwrap(opts), Unwrap(copy),
                  OtherFields({"custom_progress"}))
    /\ (IsSome(Unwrap(opts).custom_progress)
        /\ ~Unwrap(opts).show_download_progress) =>
         /\ Unwrap(copy).show_download_progress = FALSE
         /\ Unwrap(copy).custom_progress = None
         /\ Unwrap(copy) # Unwrap(opts)

C10_Witness ==
  /\ last.op = "clone"
  /\ IsSome(Unwrap(opts).custom_progress)
  /\ ~Unwrap(opts).show_download_progress
  /\ ~Unwrap(copy).show_download_progress
  /\ Unwrap(copy).custom_progress = None
  /\ Unwrap(copy).max_length = 0

\* C5: the conversion keeps execution_providers and max_length and nothing
\* else: every InitOptions value with the same execution_providers and
\* max_length as the converted one converts to the same value.
C5_ConversionNarrows ==
  last.op = "from" =>
    /\ IsSome(userOpts)
    /\ DOMAIN Unwrap(userOpts) = {"execution_providers", "max_length"}
    /\ Unwrap(userOpts).execution_providers = last.self.execution_providers
    /\ Unwrap(userOpts).max_length = last.self.max_length
    /\ \A o \in InitOptions :
         (/\ o.execution_providers = last.self.execution_providers
          /\ o.max_length = last.self.max_length)
         => InitOptionsUserDefined_from(o) = Unwrap(userOpts)

C5_Witness ==
  /\ last.op = "from"
  /\ last.self.execution_providers = <<"CUDA", "CPU">>
  /\ last.self.max_length = 0
  /\ IsSome(last.self.custom_progress)
  /\ last.self.model_name # DEFAULT_EMBEDDING_MODEL
  /\ Unwrap(userOpts).execution_providers = <<"CUDA", "CPU">>
  /\ Unwrap(userOpts).max_length = 0

----------------------------------------------------------------------------
(* Properties of UserDefinedEmbeddingModel, checked under SpecUserDefined. *)

C6_State ==
  /\ \A i \in Slots :
       IsSome(models[i]) =>
         /\ Unwrap(models[i]).pooling = Unwrap(hist[i]).pooling
         /\ Unwrap(models[i]).quantization = Unwrap(hist[i]).quantization
         /\ Unwrap(models[i]).onnx_file = Unwrap(hist[i]).onnx_file
         /\ Unwrap(models[i]).tokenizer_files = Unwrap(hist[i]).tokenizer_files
  /\ last.op = "model_new" =>
       /\ Unwrap(models[last.slot]).quantization = "None"
       /\ Unwrap(models[last.slot]).pooling = None

C6_Step ==
  \A i \in Slots :
    (IsSome(models[i]) /\ IsSome(models'[i])
     /\ IsSome(Unwrap(models[i]).pooling))
    => IsSome(Unwrap(models'[i]).pooling)

\* C6: a new model has quantization none and no pooling; after any override
\* calls its pooling is Some of the latest with_pooling argument (None if
\* there was none), its quantization the latest with_quantization argument
\* (none if there was none), its bytes and files the constructor's arguments;
\* and a pooling once set is never unset.
C6_OverridesReplace == []C6_State /\ [][C6_Step]_vars

C6_Witness ==
  /\ last.op = "model_with_pooling"
  /\ Unwrap(models[last.slot]).pooling = Some("Mean")
  /\ Unwrap(models[last.slot]).quantization = "Dynamic"
  /\ Unwrap(hist[last.slot]).pooling = Some("Mean")
  /\ Len(Unwrap(models[last.slot]).onnx_file) = MaxBytes

\* C7: two models compare equal exactly when their bytes, files, pooling and
\* quantization are equal; two models built from the same bytes and files
\* with the same latest overrides are equal however they were reached.
C7_StructuralEquality ==
  (IsSome(models[1]) /\ IsSome(models[2])) =>
    LET a == Unwrap(models[1])
        b == Unwrap(models[2])
    IN /\ UserDefinedEmbeddingModel_eq(a, b) <=>
            (/\ a.onnx_file = b.onnx_file
             /\ a.tokenizer_files = b.tokenizer_files
             /\ a.pooling = b.pooling
             /\ a.quantization = b.quantization)
       /\ hist[1] = hist[2] => UserDefinedEmbeddingModel_eq(a, b)
       /\ UserDefinedEmbeddingModel_eq(a, b)
            = UserDefinedEmbeddingModel_eq(b, a)

C7_Witness ==
  /\ IsSome(models[1]) /\ IsSome(models[2])
  /\ UserDefinedEmbeddingModel_eq(Unwrap(models[1]), Unwrap(models[2]))
  /\ Unwrap(models[1]).pooling = Some("Cls")
  /\ Unwrap(models[1]).quantization = "Static"
  /\ Len(Unwrap(models[1]).onnx_file) = MaxBytes
  /\ last.op = "model_with_quantization"

----------------------------------------------------------------------------
(* Property of every option-building operation, checked under SpecPure.    *)

\* C8: every option-building operation returns a value of its type that
\* holds the argument unchanged, for every argument, a max_length of 0, an
\* empty provider list and empty ONNX bytes included; only the construction
\* of the runtime rejects such values.
C8_BuildersNeverReject ==
  /\ res.op = "InitOptions::new" =>
       res.out \in InitOptions /\ res.out.model_name = res.arg
  /\ res.op = "InitOptions::with_custom_progress" =>
       res.out \in InitOptions /\ res.out.custom_progress = Some(res.arg)
  /\ res.op = "InitOptions::with_max_length" =>
       res.out \in InitOptions /\ res.out.max_length = res.arg
  /\ res.op = "InitOptions::with_cache_dir" =>
       res.out \in InitOptions /\ res.out.cache_dir = res.arg
  /\ res.op = "InitOptions::with_execution_providers" =>
       res.out \in InitOptions /\ res.out.execution_providers = res.arg
  /\ res.op = "InitOptions::with_show_download_progress" =>
       res.out \in InitOptions /\ res.out.show_download_progress = res.arg
  /\ res.op = "InitOptionsUserDefined::new" =>
       res.out \in InitOptionsUserDefined
  /\ res.op = "InitOptionsUserDefined::with_execution_providers" =>
       /\ res.out \in InitOptionsUserDefined
       /\ res.out.execution_providers = res.arg
  /\ res.op = "InitOptionsUserDefined::with_max_length" =>
       res.out \in InitOptionsUserDefined /\ res.out.max_length = res.arg
  /\ res.op = "InitOptionsUserDefined::from" =>
       /\ res.out \in InitOptionsUserDefined
       /\ res.out.execution_providers = res.arg.execution_providers
       /\ res.out.max_length = res.arg.max_length
  /\ res.op = "UserDefinedEmbeddingModel::new" =>
       /\ res.out \in UserDefinedEmbeddingModel
       /\ res.out.onnx_file = res.arg[1]
       /\ res.out.tokenizer_files = res.arg[2]
  /\ res.op = "UserDefinedEmbeddingModel::with_quantization" =>
       /\ res.out \in UserDefinedEmbeddingModel
       /\ res.out.quantization = res.arg
  /\ res.op = "UserDefinedEmbeddingModel::with_pooling" =>
       /\ res.out \in UserDefinedEmbeddingModel
       /\ res.out.pooling = Some(res.arg)
  /\ (/\ res.op = "TextEmbedding::try_new_from_user_defined"
      /\ (res.arg.max_length = 0 \/ Len(res.self.onnx_file) = 0))
     => ~res.out.ok

C8_Witness ==
  /\ res.op = "InitOptions::with_max_length"
  /\ res.arg = 0
  /\ res.self.max_length # 0
  /\ res.out.max_length = 0

====
